---- MODULE Spec2Model ----
(***************************************************************************)
(* The PCA notebook (src/PCA.ipynb) as a state machine.  One action per    *)
(* code cell, run top to bottom; an exception raised by a cell stops the   *)
(* run.  Real numbers are fixed-point integers: a stored real r is the     *)
(* integer nearest to Scale * r, so 1.0 is Scale and every operation       *)
(* rounds, as floating point does.  NaN stands for every undefined         *)
(* floating-point value (nan, inf).  Lines 271 and 292 call the class PCA; *)
(* line 96 imports sklearn.decomposition.PCA under the name sklearnPCA,    *)
(* and PCA is taken to be that class.                                      *)
(***************************************************************************)
EXTENDS Integers, Sequences, FiniteSets

VARIABLES pc, M, df1, X_std, mean_vec, cov_mat, eig_vals, eig_vecs,
          eig_pairs, pca, fits, cum_var, err

vars == <<pc, M, df1, X_std, mean_vec, cov_mat, eig_vals, eig_vecs,
          eig_pairs, pca, fits, cum_var, err>>

(* ------------------------------ bounds --------------------------------- *)
\* users (rows) and movies (columns) of the pivot table
MaxN == 3
MaxD == 2
\* the fixed-point unit: the integer that stands for 1.0
Scale == 1000
\* the rounding tolerance, in units of 1 / Scale
Tol == 2
\* the ratings a user can give
Ratings == {1}

(* --------------------------- float arithmetic -------------------------- *)
NaN == -2147483647

\* a name not assigned yet
None == <<>>

IsNaN(x) == x = NaN

Abs(x) == IF x < 0 THEN -x ELSE x

Min(a, b) == IF a < b THEN a ELSE b

Plus(a, b) == IF IsNaN(a) \/ IsNaN(b) THEN NaN ELSE a + b

Minus(a, b) == IF IsNaN(a) \/ IsNaN(b) THEN NaN ELSE a - b

Times(a, b) == IF IsNaN(a) \/ IsNaN(b) THEN NaN ELSE a * b

\* a / b rounded to the nearest integer; a division by zero is undefined
Quot(a, b) ==
    IF IsNaN(a) \/ IsNaN(b) \/ b = 0 THEN NaN
    ELSE LET n == IF b < 0 THEN -a ELSE a
             d == Abs(b)
         IN  IF n >= 0 THEN (2 * n + d) \div (2 * d)
                       ELSE -((2 * (-n) + d) \div (2 * d))

RECURSIVE SqrtSearch(_, _, _)
SqrtSearch(n, lo, hi) ==
    IF hi - lo <= 1 THEN lo
    ELSE LET mid == (lo + hi) \div 2
         IN  IF mid * mid <= n THEN SqrtSearch(n, mid, hi)
                               ELSE SqrtSearch(n, lo, mid)

\* the integer nearest to the square root of n >= 0
ISqrt(n) ==
    IF IsNaN(n) \/ n < 0 THEN NaN
    ELSE LET r == SqrtSearch(n, 0, 46340)
         IN  IF n - r * r > r THEN r + 1 ELSE r

\* np.sqrt of the fixed-point real x
Sqrt(x) == IF IsNaN(x) THEN NaN ELSE ISqrt(x * Scale)

RECURSIVE SumSeq(_)
SumSeq(s) == IF s = <<>> THEN 0 ELSE Plus(s[1], SumSeq(Tail(s)))

(* ------------------------------ matrices ------------------------------- *)
\* A vector is a sequence of reals, a matrix a sequence of rows.  Vec and
\* Mat give a sequence its explicit form, every entry computed once.
Vec(v) == v \o <<>>

Mat(X) == [i \in DOMAIN X |-> X[i] \o <<>>] \o <<>>

NRows(X) == Len(X)

NCols(X) == Len(X[1])

Column(X, j) == Vec([i \in 1..NRows(X) |-> X[i][j]])

HasNaN(X) == \E i \in 1..NRows(X) : \E j \in 1..NCols(X) : IsNaN(X[i][j])

SameShape(X, Y) == NRows(X) = NRows(Y) /\ NCols(X) = NCols(Y)

Dot(u, v) == SumSeq([j \in 1..Len(u) |-> Times(u[j], v[j])])

MatVec(A, d) == Vec([j \in 1..Len(A) |-> Dot(A[j], d)])

RECURSIVE LexLeq(_, _)
LexLeq(a, b) ==
    IF a = <<>> THEN TRUE
    ELSE IF a[1] # b[1] THEN a[1] < b[1]
    ELSE LexLeq(Tail(a), Tail(b))

\* The matrices the pivot table can be: users x movies, NaN where unrated.
\* Every quantity the notebook computes from the matrix is symmetric in
\* the users, so one order of the rows stands for all of them.
RawMatrices ==
    { X \in UNION { [1..n -> [1..d -> {Scale * r : r \in Ratings} \cup {NaN}]] :
                       n \in 1..MaxN, d \in 1..MaxD } :
        \A i \in 1..(Len(X) - 1) : LexLeq(X[i], X[i + 1]) }

(* --------------------- cell 2: zero fill, standardize ------------------ *)
FillZeroIdentity(X) == X

\* M.replace(np.nan, 0)
FillZero(X) ==
    Mat([i \in 1..NRows(X) |-> [j \in 1..NCols(X) |->
            IF IsNaN(X[i][j]) THEN 0 ELSE X[i][j]]])

\* np.mean(X, axis=0)
ColumnMeans(X) ==
    Vec([j \in 1..NCols(X) |-> Quot(SumSeq(Column(X, j)), NRows(X))])

\* X - mu, the row vector mu broadcast over the rows
Centre(X, mu) ==
    Mat([i \in 1..NRows(X) |-> [j \in 1..NCols(X) |-> Minus(X[i][j], mu[j])]])

\* StandardScaler.var_: the population variance of every column
ScalerVar(X) ==
    LET Xc == Centre(X, ColumnMeans(X))
    IN  Vec([j \in 1..NCols(X) |->
                Quot(Dot(Column(Xc, j), Column(Xc, j)), NRows(X) * Scale)])

KeepZerosInScale(s) == s

\* sklearn's _handle_zeros_in_scale: a zero scale is replaced by 1.0
HandleZerosInScale(s) ==
    Vec([j \in 1..Len(s) |-> IF s[j] = 0 THEN Scale ELSE s[j]])

\* StandardScaler.scale_
ScalerScale(X) ==
    LET v == ScalerVar(X)
    IN  HandleZerosInScale(Vec([j \in 1..Len(v) |-> Sqrt(v[j])]))

\* StandardScaler().fit_transform(X): (X - mean_) / scale_
Standardize(X) ==
    LET Xc == Centre(X, ColumnMeans(X))
        sc == ScalerScale(X)
    IN  Mat([i \in 1..NRows(X) |-> [j \in 1..NCols(X) |->
                Quot(Times(Scale, Xc[i][j]), sc[j])]])

(* ------------------------- cell 3: covariance -------------------------- *)
Transpose(X) == Mat([j \in 1..NCols(X) |-> Column(X, j)])

\* A.dot(B), the products left unrounded (in units of 1 / Scale^2)
MatMul(A, B) ==
    Mat([j \in 1..NRows(A) |-> [k \in 1..NCols(B) |-> Dot(A[j], Column(B, k))]])

CovExplicitBiased(X, mv) ==
    LET Xc == Centre(X, mv)
        P  == MatMul(Transpose(Xc), Xc)
    IN  Mat([j \in 1..NCols(X) |-> [k \in 1..NCols(X) |->
                Quot(P[j][k], Scale * NRows(X))]])

\* (X - mean_vec).T.dot((X - mean_vec)) / (X.shape[0]-1)
CovExplicit(X, mv) ==
    LET Xc == Centre(X, mv)
        P  == MatMul(Transpose(Xc), Xc)
    IN  Mat([j \in 1..NCols(X) |-> [k \in 1..NCols(X) |->
                Quot(P[j][k], Scale * (NRows(X) - 1))]])

\* np.cov(X.T): the rows of X are the observations and ddof is 1.  numpy
\* subtracts the average of every variable and scales the products by
\* 1 / fact, fact = N - ddof; with fact = 0 it warns and every entry is nan.
NpCov(X) ==
    LET fact == NRows(X) - 1
        Xt   == Transpose(Centre(X, ColumnMeans(X)))
    IN  Mat([j \in 1..NCols(X) |-> [k \in 1..NCols(X) |->
                Quot(Dot(Xt[j], Xt[k]), Scale * fact)]])

(* --------------------- cell 4: eigendecomposition ---------------------- *)
\* Eigen-directions are searched on the grid of integer directions with
\* components in {-1, 0, 1}; a direction and its opposite are the same
\* eigenvector up to sign, and the one whose first non-zero component is
\* positive stands for both.
Directions(D) ==
    { d \in [1..D -> {-1, 0, 1}] :
        \E j \in 1..D : d[j] = 1 /\ \A k \in 1..(j - 1) : d[k] = 0 }

\* A d = lambda d within Tol, with lambda the Rayleigh quotient of d
IsEigenDirection(A, d) ==
    LET dd == Dot(d, d)
        Ad == MatVec(A, d)
        q  == Dot(d, Ad)
    IN  \A j \in 1..Len(d) : Abs(Ad[j] * dd - q * d[j]) <= Tol * dd

EigenDirections(A) == { d \in Directions(Len(A)) : IsEigenDirection(A, d) }

\* the eigenvalue of eigen-direction d
EigenValue(A, d) == Quot(Dot(d, MatVec(A, d)), Dot(d, d))

\* the unit vector along d
Normalize(d) ==
    LET norm == Sqrt(Scale * Dot(d, d))
    IN  Vec([j \in 1..Len(d) |-> Quot(Scale * Scale * d[j], norm)])

\* the sequences of partials extended n times by a direction orthogonal to
\* every direction already in the sequence
RECURSIVE ExtendBases(_, _, _)
ExtendBases(dirs, n, partials) ==
    IF n = 0 THEN partials
    ELSE ExtendBases(dirs, n - 1,
             { Append(x[1], x[2]) :
                 x \in { y \in partials \X dirs :
                            \A i \in 1..Len(y[1]) : Dot(y[1][i], y[2]) = 0 } })

\* every full set of mutually orthogonal eigen-directions of A, in every order
EigenBases(A) == ExtendBases(EigenDirections(A), Len(A), {<<>>})

\* one unit in the last place, either way
RoundingNoise == {-1, 0, 1}

IsZeroMatrix(A) == \A j \in 1..Len(A) : \A k \in 1..Len(A) : A[j][k] = 0

\* The rounding noise of a computed eigenvalue, which is proportional to the
\* size of A: an eigenvalue of a non-zero A that is zero within Tol may come
\* out a little below or above zero.  (On the other eigenvalues the noise
\* changes neither sign nor order and is left out.)
NoiseOf(A, lambda) ==
    IF ~IsZeroMatrix(A) /\ Abs(lambda) <= Tol THEN RoundingNoise ELSE {0}

\* what np.linalg.eig may return for the eigen-basis b
EigOutputs(A, b) ==
    LET w == Vec([i \in 1..Len(A) |-> EigenValue(A, b[i])])
        u == Vec([c \in 1..Len(A) |-> Normalize(b[c])])
        v == Mat([r \in 1..Len(A) |-> [c \in 1..Len(A) |-> u[c][r]]])
        noise == { f \in [1..Len(A) -> RoundingNoise] :
                     \A i \in 1..Len(A) : f[i] \in NoiseOf(A, w[i]) }
    IN  { << Vec([i \in 1..Len(A) |-> w[i] + e[i]]), v >> : e \in noise }

\* np.linalg.eig(A) for a finite symmetric A: every <<w, v>> it may return.
\* The eigenvalues are in no particular order; v[:, i] goes with w[i].
LinalgEig(A) == UNION { EigOutputs(A, b) : b \in EigenBases(A) }

(* ------------------------ cell 5: the eigenpairs ----------------------- *)
EigPairsRows(w, v) == Vec([i \in 1..Len(w) |-> << Abs(w[i]), v[i] >>])

\* [(np.abs(eig_vals[i]), eig_vecs[:,i]) for i in range(len(eig_vals))]
EigPairs(w, v) == Vec([i \in 1..Len(w) |-> << Abs(w[i]), Column(v, i) >>])

(* ----------------------- cells 6 and 7: sklearn PCA --------------------- *)
\* PCA(n_components=2)
n_components == 2

\* s[:n]
Take(s, n) == SubSeq(s, 1, Min(n, Len(s)))

\* S**2 / (n_samples - 1) for the singular value S of the centred data Xc
\* along the right singular direction d
ExplainedVariance(Xc, d) ==
    LET s == MatVec(Xc, d)
    IN  Quot(Dot(s, s), Dot(d, d) * Scale * (NRows(Xc) - 1))

\* the number of non-zero components of d
Weight(d) == Cardinality({ j \in 1..Len(d) : d[j] # 0 })

\* The right singular directions of the centred data are the
\* eigen-directions of its covariance, found by non-increasing singular
\* value: each is a direction of largest explained variance among those
\* orthogonal to the ones before it.  Where several qualify (a repeated
\* singular value) every choice is a valid result; the sparsest is taken.
\* ranked holds << direction, explained variance, weight >>.
RECURSIVE SvdFrom(_, _, _)
SvdFrom(ranked, n, chosen) ==
    LET cand == { p \in ranked :
                    \A i \in 1..Len(chosen) : Dot(chosen[i], p[1]) = 0 }
        top  == { p \in cand : \A q \in cand : p[2] >= q[2] }
        best == CHOOSE p \in top : \A q \in top : p[3] <= q[3]
    IN  IF Len(chosen) = n THEN { chosen }
        ELSE IF cand = {} THEN {}
        ELSE SvdFrom(ranked, n, Append(chosen, best[1]))

\* linalg.svd of the centred X: no value when no basis lies on the grid
Svd(X) ==
    LET Xc == Centre(X, ColumnMeans(X))
    IN  SvdFrom({ << d, ExplainedVariance(Xc, d), Weight(d) >> :
                      d \in EigenDirections(NpCov(X)) }, NCols(X), <<>>)

ValidKNoUpper(X, k) == 0 <= k

\* PCA._fit: not 0 <= n_components <= min(n_samples, n_features) raises
\* ValueError
ValidK(X, k) == 0 <= k /\ k <= Min(NRows(X), NCols(X))

RatioOfLargest(ev) ==
    Vec([i \in 1..Len(ev) |-> Quot(Times(Scale, ev[i]), ev[1])])

\* explained_variance_ / total_var, total_var the sum over every component
ExplainedVarianceRatio(ev) ==
    LET total_var == SumSeq(ev)
    IN  Vec([i \in 1..Len(ev) |-> Quot(Times(Scale, ev[i]), total_var)])

\* a PCA(n_components=k) object before fit
Unfitted(k) ==
    [fitted |-> FALSE, n_components |-> k, components_ |-> <<>>,
     explained_variance_ratio_ |-> <<>>]

NoPca == Unfitted(0)

\* PCA(n_components=k).fit(X) for a valid k, b the decomposition of the
\* centred X: keep the first k components and their ratios
PcaFit(X, k, b) ==
    LET r  == Min(NRows(X), NCols(X))
        Xc == Centre(X, ColumnMeans(X))
        ev == Vec([i \in 1..r |-> ExplainedVariance(Xc, b[i])])
    IN  [fitted |-> TRUE, n_components |-> k,
         components_ |-> Take(Vec([i \in 1..r |-> Normalize(b[i])]), k),
         explained_variance_ratio_ |-> Take(ExplainedVarianceRatio(ev), k)]

\* np.cumsum(s)
Cumsum(s) == Vec([i \in 1..Len(s) |-> SumSeq(SubSeq(s, 1, i))])

(* ------------------------------ the cells ------------------------------ *)
Init ==
    /\ pc = "fill"
    /\ M \in RawMatrices
    /\ df1 = None /\ X_std = None /\ mean_vec = None /\ cov_mat = None
    /\ eig_vals = None /\ eig_vecs = None /\ eig_pairs = None
    /\ pca = NoPca /\ fits = <<>> /\ cum_var = None
    /\ err = "none"

\* line 121
FillCell ==
    /\ pc = "fill"
    /\ df1' = FillZero(M)
    /\ pc' = "standardize"
    /\ UNCHANGED <<M, X_std, mean_vec, cov_mat, eig_vals, eig_vecs,
                   eig_pairs, pca, fits, cum_var, err>>

\* line 122
StandardizeCell ==
    /\ pc = "standardize"
    /\ X_std' = Standardize(df1)
    /\ pc' = "cov"
    /\ UNCHANGED <<M, df1, mean_vec, cov_mat, eig_vals, eig_vecs,
                   eig_pairs, pca, fits, cum_var, err>>

\* lines 183-188
CovCell ==
    /\ pc = "cov"
    /\ mean_vec' = ColumnMeans(X_std)
    /\ cov_mat' = CovExplicit(X_std, ColumnMeans(X_std))
    /\ pc' = "eig"
    /\ UNCHANGED <<M, df1, X_std, eig_vals, eig_vecs,
                   eig_pairs, pca, fits, cum_var, err>>

\* lines 207-210; np.linalg.eig raises LinAlgError on nan or inf
EigCell ==
    /\ pc = "eig"
    /\ cov_mat' = NpCov(X_std)
    /\ IF HasNaN(NpCov(X_std))
       THEN /\ err' = "LinAlgError"
            /\ pc' = "failed"
            /\ UNCHANGED <<eig_vals, eig_vecs>>
       ELSE /\ \E wv \in LinalgEig(NpCov(X_std)) :
                  /\ eig_vals' = wv[1]
                  /\ eig_vecs' = wv[2]
            /\ pc' = "pairs"
            /\ UNCHANGED err
    /\ UNCHANGED <<M, df1, X_std, mean_vec, eig_pairs, pca, fits, cum_var>>

\* lines 249-253
PairsCell ==
    /\ pc = "pairs"
    /\ eig_pairs' = EigPairs(eig_vals, eig_vecs)
    /\ pc' = "pca2"
    /\ UNCHANGED <<M, df1, X_std, mean_vec, cov_mat, eig_vals, eig_vecs,
                   pca, fits, cum_var, err>>

\* lines 271-273: PCA(n_components=2) fitted on df1
Pca2Cell ==
    /\ pc = "pca2"
    /\ fits' = Append(fits, df1)
    /\ IF ValidK(df1, n_components)
       THEN /\ \E b \in Svd(df1) : pca' = PcaFit(df1, n_components, b)
            /\ pc' = "scree"
            /\ UNCHANGED err
       ELSE /\ pca' = Unfitted(n_components)
            /\ err' = "ValueError"
            /\ pc' = "failed"
    /\ UNCHANGED <<M, df1, X_std, mean_vec, cov_mat, eig_vals, eig_vecs,
                   eig_pairs, cum_var>>

\* lines 292-296: PCA() keeps min(n_samples, n_features) components
ScreeCell ==
    /\ pc = "scree"
    /\ fits' = Append(fits, X_std)
    /\ \E b \in Svd(X_std) :
          /\ pca' = PcaFit(X_std, Min(NRows(X_std), NCols(X_std)), b)
          /\ cum_var' = Cumsum(pca'.explained_variance_ratio_)
    /\ pc' = "done"
    /\ UNCHANGED <<M, df1, X_std, mean_vec, cov_mat, eig_vals, eig_vecs,
                   eig_pairs, err>>

Next ==
    \/ FillCell \/ StandardizeCell \/ CovCell \/ EigCell \/ PairsCell
    \/ Pca2Cell \/ ScreeCell

Spec == Init /\ [][Next]_vars

(* ------------------------------ the claims ----------------------------- *)
\* two reals equal within the rounding tolerance
Close(a, b) == ~IsNaN(a) /\ ~IsNaN(b) /\ Abs(a - b) <= Tol

MatClose(A, B) ==
    /\ SameShape(A, B)
    /\ \A j \in 1..NRows(A) : \A k \in 1..NCols(A) : Close(A[j][k], B[j][k])

NonIncreasing(s) == \A i \in 1..(Len(s) - 1) : s[i] >= s[i + 1]

NonDecreasing(s) == \A i \in 1..(Len(s) - 1) : s[i] <= s[i + 1]

\* the total variance: the sum of the diagonal of a covariance matrix
Trace(A) == SumSeq([j \in 1..Len(A) |-> A[j][j]])

ConstantColumn(X, j) == \A i \in 1..NRows(X) : X[i][j] = X[1][j]

\* the eigenvalues held by the pairs, in the order of the pairs
PairValues == [i \in 1..Len(eig_pairs) |-> eig_pairs[i][1]]

\* C1: once the eigenpairs are built, their eigenvalues are in
\* non-increasing order.
C1_RankedNonIncreasing == eig_pairs # None => NonIncreasing(PairValues)

\* C2: when the total variance is not zero, the cumulative
\* explained-variance ratio of the scree cell never decreases and its last
\* value is 1.0 within the tolerance.
C2_CumulativeRatio ==
    (pc = "done" /\ Trace(cov_mat) # 0) =>
        /\ Len(cum_var) = Min(NRows(X_std), NCols(X_std))
        /\ \A i \in 1..Len(cum_var) : ~IsNaN(cum_var[i])
        /\ NonDecreasing(cum_var)
        /\ Close(cum_var[Len(cum_var)], Scale)

C2_Witness ==
    /\ pc = "done" /\ Trace(cov_mat) # 0
    /\ Len(cum_var) = 2 /\ 0 < cum_var[1] /\ cum_var[1] < cum_var[2]

\* the sum over the rows of the products of the standardized columns j and
\* k, divided by N - 1, with no mean subtracted
CovUncentred(X) ==
    Mat([j \in 1..NCols(X) |-> [k \in 1..NCols(X) |->
            Quot(Dot(Column(X, j), Column(X, k)), Scale * (NRows(X) - 1))]])

\* C3: with at least two rows, the covariance matrix in cov_mat (the
\* explicit formula right after cell 3, np.cov right after cell 4) agrees within the tolerance with np.cov of the standardized matrix,
\* with the explicit formula on the stored mean vector, and with the
\* uncentred sum of products over N - 1.
C3_CovarianceAgrees ==
    (pc \in {"eig", "pairs"} /\ NRows(X_std) >= 2) =>
        /\ MatClose(cov_mat, NpCov(X_std))
        /\ MatClose(cov_mat, CovExplicit(X_std, mean_vec))
        /\ MatClose(cov_mat, CovUncentred(X_std))

C3_Witness ==
    /\ pc = "pairs" /\ NRows(X_std) >= 2 /\ NCols(X_std) >= 2
    /\ cov_mat[1][2] # 0 /\ cov_mat[1][1] # 0

\* C4: a matrix of two rows gets a finite covariance, and a matrix of one
\* row fails with InsufficientSamples before any covariance is produced or
\* handed to the eigendecomposition.
C4_InsufficientSamples ==
    /\ (NRows(M) = 1 /\ pc \notin {"fill", "standardize", "cov"}) =>
           (pc = "failed" /\ err = "InsufficientSamples" /\ cov_mat = None)
    /\ (NRows(M) = 2 /\ cov_mat # None) => ~HasNaN(cov_mat)

\* C5: a column that is constant after the zero fill is standardized to
\* zeros (the emit-0 policy); the run does not fail there and no entry of
\* the standardized matrix is undefined.
C5_DegenerateColumn ==
    X_std # None =>
        /\ ~HasNaN(X_std)
        /\ pc = "cov" => err = "none"
        /\ \A j \in 1..NCols(df1) :
              ConstantColumn(df1, j) => \A i \in 1..NRows(X_std) : X_std[i][j] = 0

C5_Witness ==
    /\ pc = "cov" /\ NRows(df1) >= 2 /\ NCols(df1) >= 2
    /\ ConstantColumn(df1, 1) /\ df1[1][1] # 0
    /\ ~ConstantColumn(df1, 2)

\* C6: the filled matrix is the raw matrix with 0 in place of every missing
\* entry and nothing else changed; the standardized matrix has the shape of
\* the raw matrix and no missing entry, and its column statistics are those
\* of the filled matrix.
C6_FillZero ==
    /\ df1 # None =>
          /\ SameShape(df1, M)
          /\ \A i \in 1..NRows(M) : \A j \in 1..NCols(M) :
                df1[i][j] = IF IsNaN(M[i][j]) THEN 0 ELSE M[i][j]
    /\ X_std # None =>
          /\ SameShape(X_std, M)
          /\ ~HasNaN(X_std)
          /\ ~HasNaN(<<ColumnMeans(df1), ScalerScale(df1)>>)

C6_Witness ==
    /\ pc = "cov" /\ HasNaN(M) /\ NCols(M) >= 2
    /\ \E i \in 1..NRows(M) : ~IsNaN(M[i][1]) /\ IsNaN(M[i][2])

\* C7: every matrix handed to a PCA fit is the standardized matrix.
C7_FitsTakeStandardized == \A i \in 1..Len(fits) : fits[i] = X_std

\* the state right after the cell of lines 271-273
AfterPca2 == pc = "scree" \/ (pc = "failed" /\ err = "ValueError")

C10_PairsKeepEigenvalues ==
    eig_pairs # None =>
        /\ Len(eig_pairs) = NCols(M)
        /\ \A i \in 1..Len(eig_pairs) :
              /\ eig_pairs[i][1] = eig_vals[i]
              /\ eig_pairs[i][2] = Column(eig_vecs, i)
        /\ SumSeq(PairValues) = SumSeq(eig_vals)

\* C10 amended: the pairs are D, pair i holds the absolute value of
\* eigenvalue i with column i of the eigenvector matrix, and the paired
\* values sum to the sum of the absolute values of the eigenvalues.
C10_PairsKeepMagnitude ==
    eig_pairs # None =>
        /\ Len(eig_pairs) = NCols(M)
        /\ \A i \in 1..Len(eig_pairs) :
              /\ eig_pairs[i][1] = Abs(eig_vals[i])
              /\ eig_pairs[i][2] = Column(eig_vecs, i)
        /\ SumSeq(PairValues) =
               SumSeq([i \in 1..Len(eig_vals) |-> Abs(eig_vals[i])])

C10_Witness ==
    /\ eig_pairs # None /\ Len(eig_pairs) >= 2
    /\ \E i \in 1..Len(eig_vals) : eig_vals[i] < 0
    /\ eig_vecs[1][2] # eig_vecs[2][1]
====
